---- MODULE Spec2Model ----
(***************************************************************************)
(* A model of peer-dial (src/src/peer-dial.ts): the DIAL Server's SSDP     *)
(* announcements and its shutdown countdown, the Server's HTTP app-control *)
(* handlers around the three delegate hooks (with any provider, and with   *)
(* the demo server's provider), the Client's set of discovered locations,  *)
(* and the outbound calls of Client.getDialDevice and DialDevice with the  *)
(* two XML documents they render and parse.                                *)
(*                                                                         *)
(* Strings that the code builds by interpolation are sequences of string   *)
(* fragments, so that `a${b}` is  <<"a">> \o b  and equality of the built   *)
(* strings is equality of the sequences.  Every handler runs to completion *)
(* (one JavaScript task), so every handler is one action; what a handler   *)
(* sends or emits while it runs is recorded, in order, in the component's  *)
(* output variable, which holds the output of the latest handler only.     *)
(***************************************************************************)
EXTENDS Integers, Sequences, FiniteSets, Bags, TLC

VARIABLES
    \* ---- Server, SSDP side
    extraHeaders,   \* this.extraHeaders (fixed at construction)
    sPeer,          \* the state of the Server's ssdpPeer: "new", "started", "closed"
    stopCalls,      \* one record per call of stop(): its closure (remaining) and its unacknowledged byebyes
    closeEvents,    \* "close" events the transport still has to deliver to the Server
    sOp,            \* the Server operation or transport handler that ran last
    sOut            \* what that handler sent on the transport and emitted, in order

sVars == <<extraHeaders, sPeer, stopCalls, closeEvents, sOp, sOut>>

VARIABLES
    \* ---- Client
    cPeer,          \* the state of the Client's ssdpPeer: "new", "started", "closed"
    services,       \* this.services: the own properties of the object, location -> headers
    cCloseEvents,   \* "close" events the transport still has to deliver to the Client
    cOp,            \* the Client operation or transport handler that ran last
    cOut,           \* what that handler sent on the transport and emitted, in order
    foundOpen,      \* history: locations with a "found" emitted and no "disappear" emitted since
    tracked,        \* history: the same, counted since the last refresh() only
    disappeared,    \* history: locations for which a "disappear" was ever emitted
    readvertised    \* history: the advertisement the latest handler got for a location already recorded

cVars == <<cPeer, services, cCloseEvents, cOp, cOut, foundOpen, tracked, disappeared, readvertised>>

VARIABLES
    \* ---- Server, HTTP side
    delegate,          \* this.delegate: which of getApp, launchApp, stopApp are functions
    maxContentLength,  \* this.maxContentLength
    apps,              \* the app provider's table: app name -> app info, as getApp returns it
    inflight,          \* the closures of the requests that wait for a hook's callback (a bag)
    last,              \* the latest handler or callback: its request, what getApp returned, what it sent
    scen,              \* history: progress of the sequence GET, POST, GET on a bare app
    hist               \* history: the POSTs since the latest successful DELETE, and a pair of overlapping POSTs

hVars == <<delegate, maxContentLength, apps, inflight, last, scen, hist>>

VARIABLES
    \* ---- Client.getDialDevice and DialDevice
    device,         \* the DialDevice the app-control calls are made on
    outbound,       \* the closures of the outbound HTTP requests that wait for their response (a bag)
    dLast           \* the latest call or response handler: its input, the request it issued, its callbacks

dVars == <<device, outbound, dLast>>

vars == <<sVars, cVars, hVars, dVars>>

\* ------------------------------------------------------------------ bounds

\* calls of Server.stop() in one run
MaxStops == 2

\* HTTP requests that wait for a hook's callback at the same time
MaxInflight == 2

\* outbound requests of the Client and its DialDevice that wait for a response at the same time
MaxOutbound == 2

\* ------------------------------------------------------------ Server: SSDP

\* options.uuid, options.port, options.prefix of the modelled Server
uuid == <<"abc">>
port == <<"3000">>
prefix == <<"/dial">>

SERVER_STR == <<"os/release UPnP/1.1 famium/0.0.1">>

DIAL_SERVICE == <<"urn:dial-multiscreen-org:service:dial:1">>
DIAL_DEVICE == <<"urn:dial-multiscreen-org:device:dial:1">>

\* the five service types, in the order of the array literal
serviceTypes ==
    << DIAL_SERVICE,
       DIAL_DEVICE,
       <<"upnp:rootdevice">>,
       <<"ssdp:all">>,
       <<"uuid:">> \o uuid >>

location == <<"http://{{networkInterfaceAddress}}:">> \o port \o prefix \o <<"/ssdp/device-desc.xml">>

\* `uuid:${this.uuid}::${st}`
USN(st) == <<"uuid:">> \o uuid \o <<"::">> \o st

\* JavaScript truthiness of a header value (a string): the empty string is falsy
Truthy(v) == v # <<>> /\ v # <<"">>

\* merge(obj1, obj2): for every key of obj2, obj1[key] = obj1[key] || obj2[key]
merge(obj1, obj2) ==
    [k \in (DOMAIN obj1) \cup (DOMAIN obj2) |->
        IF k \in DOMAIN obj2
        THEN IF k \in DOMAIN obj1 /\ Truthy(obj1[k]) THEN obj1[k] ELSE obj2[k]
        ELSE obj1[k]]

\* the header dictionaries a Server may be constructed with (after getExtraHeaders)
ExtraHeaderChoices ==
    { [k \in {} |-> <<>>],
      [k \in {"X-EXTRA"} |-> <<"1">>],
      [k \in {"NT", "LOCATION", "ST", "USN"} |-> <<"other">>] }

NoHeaders == [k \in {} |-> <<>>]

\* a header the message does not carry reads as undefined
Undefined == <<>>
Header(headers, key) == IF key \in DOMAIN headers THEN headers[key] ELSE Undefined

\* one entry of a handler's output
Msg(kind, headers) == [kind |-> kind, headers |-> headers]

\* the headers of the alive message for service type st
AnnounceHeaders(st) ==
    merge([NT |-> st, USN |-> USN(st), SERVER |-> SERVER_STR, LOCATION |-> location],
          extraHeaders)

\* the loop of the "ready" handler: one alive per service type, in order
AliveBatch == [i \in 1..Len(serviceTypes) |-> Msg("alive", AnnounceHeaders(serviceTypes[i]))]

\* the "ready" handler's output: the loop, then this.emit("ready")
ReadyOutputEmitFirst == <<Msg("emit:ready", NoHeaders)>> \o AliveBatch
ReadyOutput == AliveBatch \o <<Msg("emit:ready", NoHeaders)>>

\* the array literal and the location string of stop(): the method builds its
\* own, apart from those of the handlers
stopServiceTypesWithoutRoot ==
    << <<"urn:dial-multiscreen-org:service:dial:1">>,
       <<"urn:dial-multiscreen-org:device:dial:1">>,
       <<"ssdp:all">>,
       <<"uuid:">> \o uuid >>
stopServiceTypes ==
    << <<"urn:dial-multiscreen-org:service:dial:1">>,
       <<"urn:dial-multiscreen-org:device:dial:1">>,
       <<"upnp:rootdevice">>,
       <<"ssdp:all">>,
       <<"uuid:">> \o uuid >>

stopLocation == <<"http://{{networkInterfaceAddress}}:">> \o port \o prefix \o <<"/ssdp/device-desc.xml">>

\* the headers of the byebye message for service type st
ByebyeHeaders(st) ==
    merge([NT |-> st, USN |-> USN(st), SERVER |-> SERVER_STR, LOCATION |-> stopLocation],
          extraHeaders)

\* the loop of stop(): one byebye per service type, in order
ByebyeBatch == [i \in 1..Len(stopServiceTypes) |-> Msg("byebye", ByebyeHeaders(stopServiceTypes[i]))]

\* let remaining = serviceTypes.length
InitialRemainingOneLess == Len(stopServiceTypes) - 1
InitialRemaining == Len(stopServiceTypes)

\* done(): if (remaining <= 0) after the decrement
ShouldCloseEarly(remaining) == remaining <= 1
ShouldClose(remaining) == remaining <= 0

ServerStart ==
    /\ sPeer = "new"
    /\ sPeer' = "started"
    /\ sOp' = "start"
    /\ sOut' = <<>>
    /\ UNCHANGED <<cVars, hVars, dVars, extraHeaders, stopCalls, closeEvents>>

\* peer.on("ready", ...)
PeerReady ==
    /\ sPeer = "started"
    /\ sOp' = "ready"
    /\ sOut' = ReadyOutput
    /\ UNCHANGED <<cVars, hVars, dVars, extraHeaders, sPeer, stopCalls, closeEvents>>

\* the ST values of the M-SEARCH requests the transport reports (a request
\* without ST included), and the addresses they come from
OTHER_UUID == <<"uuid:", "xyz">>
SearchTypes ==
    { serviceTypes[i] : i \in 1..Len(serviceTypes) }
        \cup { <<"urn:schemas-upnp-org:device:MediaRenderer:1">>, OTHER_UUID, <<"">>, Undefined }
SearchHeaders == { IF st = Undefined THEN NoHeaders ELSE [ST |-> st] : st \in SearchTypes }
Addresses == { [address |-> <<"10.0.0.5">>, port |-> <<"50000">>],
               [address |-> <<"10.0.0.6">>, port |-> <<"50001">>] }

\* serviceTypes.indexOf(headers.ST) !== -1
SearchMatchesDialOnly(st) == st \in {DIAL_SERVICE, DIAL_DEVICE}
SearchMatches(st) == \E i \in 1..Len(serviceTypes) : serviceTypes[i] = st

\* the headers of the reply to a search for st (the two numbers as the
\* transport writes them)
ReplyHeaders(st) ==
    merge([k \in {"LOCATION", "ST", "CONFIGID.UPNP.ORG", "BOOTID.UPNP.ORG", "SERVER", "USN"} |->
              CASE k = "LOCATION" -> location
                [] k = "ST" -> st
                [] k = "CONFIGID.UPNP.ORG" -> <<"7337">>
                [] k = "BOOTID.UPNP.ORG" -> <<"7337">>
                [] k = "SERVER" -> SERVER_STR
                [] k = "USN" -> USN(st)],
          extraHeaders)

\* peer.reply(headers, address)
Reply(headers, address) == [kind |-> "reply", headers |-> headers, address |-> address]

\* peer.on("search", ...)
PeerSearch(headers, address) ==
    /\ sPeer = "started"
    /\ sOp' = "search"
    /\ sOut' = IF SearchMatches(Header(headers, "ST"))
               THEN <<Reply(ReplyHeaders(Header(headers, "ST")), address)>>
               ELSE <<>>
    /\ UNCHANGED <<cVars, hVars, dVars, extraHeaders, sPeer, stopCalls, closeEvents>>

\* Server.stop(): a fresh countdown, five byebyes, each with the callback done
ServerStop ==
    /\ sPeer = "started"
    /\ Len(stopCalls) < MaxStops
    /\ stopCalls' = Append(stopCalls,
            [remaining |-> InitialRemaining,
             pending |-> 1..Len(stopServiceTypes),
             closes |-> 0])
    /\ sOp' = "stop"
    /\ sOut' = ByebyeBatch
    /\ UNCHANGED <<cVars, hVars, dVars, extraHeaders, sPeer, closeEvents>>

\* the transport acknowledges byebye number i of stop call c: done() runs
ByebyeAck(c, i) ==
    /\ c \in DOMAIN stopCalls
    /\ i \in stopCalls[c].pending
    /\ LET remaining == stopCalls[c].remaining - 1
           closing == ShouldClose(remaining)
       IN  /\ stopCalls' = [stopCalls EXCEPT ![c] =
                    [remaining |-> remaining,
                     pending |-> @.pending \ {i},
                     closes |-> IF closing THEN @.closes + 1 ELSE @.closes]]
           /\ sOut' = IF closing THEN <<Msg("close", NoHeaders)>> ELSE <<>>
           /\ sPeer' = IF closing THEN "closed" ELSE sPeer
           /\ closeEvents' = IF closing /\ sPeer = "started" THEN closeEvents + 1 ELSE closeEvents
    /\ sOp' = "ack"
    /\ UNCHANGED <<cVars, hVars, dVars, extraHeaders>>

\* peer.on("close", ...)
PeerClose ==
    /\ closeEvents > 0
    /\ closeEvents' = closeEvents - 1
    /\ sOp' = "close"
    /\ sOut' = <<Msg("emit:stop", NoHeaders)>>
    /\ UNCHANGED <<cVars, hVars, dVars, extraHeaders, sPeer, stopCalls>>

InitAdvertState ==
    /\ sPeer = "new"
    /\ stopCalls = <<>>
    /\ closeEvents = 0
    /\ sOp = "new"
    /\ sOut = <<>>

InitAdvert == extraHeaders \in ExtraHeaderChoices /\ InitAdvertState

\* the Server's SSDP side at rest, for the specifications of the other components
InitAdvertQuiet == extraHeaders = NoHeaders /\ InitAdvertState

NextAdvert ==
    \/ ServerStart
    \/ PeerReady
    \/ ServerStop
    \/ \E c \in 1..MaxStops, i \in 1..Len(stopServiceTypes) : ByebyeAck(c, i)
    \/ PeerClose

\* the Server's transport handlers while the transport is open: searches arrive
\* before and after "ready", and after stop() while its byebyes are on their way
NextSearch ==
    \/ ServerStart
    \/ PeerReady
    \/ \E headers \in SearchHeaders, address \in Addresses : PeerSearch(headers, address)
    \/ ServerStop

\* ------------------------------------------------------------------ Client

\* the two tracked service types of the Client constructor
clientServiceTypes == <<DIAL_SERVICE, DIAL_DEVICE>>

\* serviceTypes.indexOf(nt) >= 0
IsTracked(nt) == \E i \in 1..Len(clientServiceTypes) : clientServiceTypes[i] = nt

LOC1 == <<"http://10.0.0.1:3000/dial/ssdp/device-desc.xml">>
LOC2 == <<"http://10.0.0.2:3000/dial/ssdp/device-desc.xml">>
\* a LOCATION value that names a property every JavaScript object inherits
LOC_INHERITED == <<"constructor">>

\* property names this.services = {} inherits from Object.prototype
ObjectPrototypeKeys ==
    { <<"constructor">>, <<"toString">>, <<"valueOf">>, <<"hasOwnProperty">>,
      <<"isPrototypeOf">>, <<"propertyIsEnumerable">>, <<"toLocaleString">>, <<"__proto__">> }

\* what reading such a property yields: a function or Object.prototype, never headers
InheritedValue == [inherited |-> <<"Object.prototype">>]

\* LOCATION values a message may carry ("" and a missing header included)
LocationValues == {LOC1, LOC2, LOC_INHERITED, <<"">>, Undefined}

UsnValues == {<<"usn-1">>, <<"usn-2">>}

WithLocation(h, loc) == IF loc = Undefined THEN h ELSE merge(h, [LOCATION |-> loc])

\* headers of search replies (transport "found" events)
FoundHeaders ==
    { WithLocation([ST |-> st, USN |-> u], loc) :
        st \in {DIAL_SERVICE, <<"upnp:rootdevice">>}, u \in UsnValues, loc \in LocationValues }

\* headers of NOTIFY messages (transport "notify" events); NT may be missing
NotifyHeaders ==
    { WithLocation(IF nt = Undefined THEN [NTS |-> nts, USN |-> u]
                   ELSE [NT |-> nt, NTS |-> nts, USN |-> u], loc) :
        nt \in {DIAL_SERVICE, DIAL_DEVICE, <<"upnp:rootdevice">>, Undefined},
        nts \in {<<"ssdp:alive">>, <<"ssdp:byebye">>, <<"ssdp:update">>},
        u \in {<<"usn-1">>},
        loc \in LocationValues }

\* this.services[location] read as a condition: an own property (headers are
\* objects, so truthy) or a property inherited from Object.prototype
HasService(obj, loc) == loc \in DOMAIN obj \/ loc \in ObjectPrototypeKeys

\* this.services[location] read as a value
ServiceAt(obj, loc) == IF loc \in DOMAIN obj THEN obj[loc] ELSE InheritedValue

\* this.services[location] = headers
SetService(obj, loc, headers) ==
    [l \in (DOMAIN obj) \cup {loc} |-> IF l = loc THEN headers ELSE obj[l]]

\* delete this.services[location]: removes an own property only
DeleteServiceNever(obj, loc) == obj
DeleteService(obj, loc) == [l \in (DOMAIN obj) \ {loc} |-> obj[l]]

Event(kind, loc, headers) == [kind |-> kind, location |-> loc, headers |-> headers]

Emitted(out, kind) == { out[i].location : i \in { j \in 1..Len(out) : out[j].kind = kind } }

\* no advertisement, and an advertisement of a tracked type (matching) for a
\* location that is recorded
NoAdvert == [location |-> Undefined, headers |-> NoHeaders]
Readvertisement(headers, matching) ==
    IF matching /\ Header(headers, "LOCATION") \in DOMAIN services
    THEN [location |-> Header(headers, "LOCATION"), headers |-> headers]
    ELSE NoAdvert

\* the history variables follow what the handler got and emitted
History(out, refreshed, advert) ==
    /\ readvertised' = advert
    /\ foundOpen' = (foundOpen \cup Emitted(out, "found")) \ Emitted(out, "disappear")
    /\ tracked' = ((IF refreshed THEN {} ELSE tracked) \cup Emitted(out, "found"))
                      \ Emitted(out, "disappear")
    /\ disappeared' = disappeared \cup Emitted(out, "disappear")

\* the two searches of the "ready" handler and of refresh()
Searches ==
    << Event("search", Undefined, [ST |-> DIAL_DEVICE]),
       Event("search", Undefined, [ST |-> DIAL_SERVICE]) >>

ClientStart ==
    /\ cPeer = "new"
    /\ cPeer' = "started"
    /\ cOp' = "start"
    /\ cOut' = <<>>
    /\ History(<<>>, FALSE, NoAdvert)
    /\ UNCHANGED <<sVars, hVars, dVars, services, cCloseEvents>>

\* this.ssdpPeer.on("ready", ...)
ClientReady ==
    /\ cPeer = "started"
    /\ cOp' = "ready"
    /\ cOut' = Searches \o <<Event("ready", Undefined, NoHeaders)>>
    /\ History(<<>>, FALSE, NoAdvert)
    /\ UNCHANGED <<sVars, hVars, dVars, cPeer, services, cCloseEvents>>

\* the condition of the "found" handler
FoundIsNewAlways(loc) == Truthy(loc)
FoundIsNew(loc) == Truthy(loc) /\ ~HasService(services, loc)

\* this.ssdpPeer.on("found", ...)
ClientFound(headers) ==
    /\ cPeer = "started"
    /\ LET loc == Header(headers, "LOCATION")
           out == IF FoundIsNew(loc) THEN <<Event("found", loc, headers)>> ELSE <<>>
       IN  /\ services' = IF FoundIsNew(loc) THEN SetService(services, loc, headers) ELSE services
           /\ cOut' = out
           /\ History(out, FALSE, Readvertisement(headers, IsTracked(Header(headers, "ST"))))
    /\ cOp' = "found"
    /\ UNCHANGED <<sVars, hVars, dVars, cPeer, cCloseEvents>>

\* the two branches of the "notify" handler
NotifyIsAliveAlways(headers) ==
    LET loc == Header(headers, "LOCATION")
        nt == Header(headers, "NT")
    IN  /\ Truthy(nt) /\ IsTracked(nt)
        /\ Truthy(loc) /\ Header(headers, "NTS") = <<"ssdp:alive">>
NotifyIsAlive(headers) ==
    LET loc == Header(headers, "LOCATION")
        nt == Header(headers, "NT")
    IN  /\ Truthy(nt) /\ IsTracked(nt)
        /\ Truthy(loc) /\ Header(headers, "NTS") = <<"ssdp:alive">> /\ ~HasService(services, loc)

NotifyIsByebye(headers) ==
    LET loc == Header(headers, "LOCATION")
        nt == Header(headers, "NT")
    IN  /\ Truthy(nt) /\ IsTracked(nt)
        /\ ~NotifyIsAlive(headers)
        /\ Truthy(loc) /\ Header(headers, "NTS") = <<"ssdp:byebye">> /\ HasService(services, loc)

\* this.ssdpPeer.on("notify", ...)
ClientNotify(headers) ==
    /\ cPeer = "started"
    /\ LET loc == Header(headers, "LOCATION")
           out == IF NotifyIsAlive(headers) THEN <<Event("found", loc, headers)>>
                  ELSE IF NotifyIsByebye(headers)
                       THEN <<Event("disappear", loc, ServiceAt(services, loc))>>
                       ELSE <<>>
       IN  /\ services' = IF NotifyIsAlive(headers) THEN SetService(services, loc, headers)
                          ELSE IF NotifyIsByebye(headers) THEN DeleteService(services, loc)
                               ELSE services
           /\ cOut' = out
           /\ History(out, FALSE,
                      Readvertisement(headers, /\ IsTracked(Header(headers, "NT"))
                                               /\ Header(headers, "NTS") = <<"ssdp:alive">>))
    /\ cOp' = "notify"
    /\ UNCHANGED <<sVars, hVars, dVars, cPeer, cCloseEvents>>

\* this.services = {}
AfterRefreshKept(obj) == obj
AfterRefresh(obj) == NoHeaders

\* Client.refresh()
ClientRefresh ==
    /\ cPeer = "started"
    /\ services' = AfterRefresh(services)
    /\ cOut' = Searches
    /\ History(<<>>, TRUE, NoAdvert)
    /\ cOp' = "refresh"
    /\ UNCHANGED <<sVars, hVars, dVars, cPeer, cCloseEvents>>

\* Client.refresh() while the transport is not open (before start(), after
\* stop()): the assignment runs first; the transport either takes the two
\* searches or throws at the first one
ClientRefreshNotOpen ==
    /\ cPeer # "started"
    /\ services' = AfterRefresh(services)
    /\ cOut' \in {Searches, SubSeq(Searches, 1, 1)}
    /\ History(<<>>, TRUE, NoAdvert)
    /\ cOp' = "refresh not open"
    /\ UNCHANGED <<sVars, hVars, dVars, cPeer, cCloseEvents>>

\* Client.stop()
ClientStop ==
    /\ cPeer = "started"
    /\ cPeer' = "closed"
    /\ cCloseEvents' = cCloseEvents + 1
    /\ cOut' = <<Event("close", Undefined, NoHeaders)>>
    /\ History(<<>>, FALSE, NoAdvert)
    /\ cOp' = "stop"
    /\ UNCHANGED <<sVars, hVars, dVars, services>>

\* what the "close" handler emits
CloseOutputReady == <<Event("ready", Undefined, NoHeaders)>>
CloseOutput == <<Event("stop", Undefined, NoHeaders)>>

\* this.ssdpPeer.on("close", ...)
ClientClose ==
    /\ cCloseEvents > 0
    /\ cCloseEvents' = cCloseEvents - 1
    /\ cOut' = CloseOutput
    /\ History(<<>>, FALSE, NoAdvert)
    /\ cOp' = "close"
    /\ UNCHANGED <<sVars, hVars, dVars, cPeer, services>>

InitClient ==
    /\ cPeer = "new"
    /\ services = NoHeaders
    /\ cCloseEvents = 0
    /\ cOp = "new"
    /\ cOut = <<>>
    /\ foundOpen = {}
    /\ tracked = {}
    /\ disappeared = {}
    /\ readvertised = NoAdvert

NextClient ==
    \/ ClientStart
    \/ ClientReady
    \/ \E headers \in FoundHeaders : ClientFound(headers)
    \/ \E headers \in NotifyHeaders : ClientNotify(headers)
    \/ ClientRefresh
    \/ ClientRefreshNotOpen
    \/ ClientStop
    \/ ClientClose

\* ------------------------------------------------------------ Server: HTTP

\* the literal of  Math.max(parseInt(options.maxContentLength) || 4096, 4096)
DEFAULT_MAX_CONTENT_LENGTH == 4096

\* options.maxContentLength after parseInt; 0 stands for a missing or unparsable
\* option too (NaN and 0 are both falsy)
MaxContentLengthOptions == {0, 100, 5000}

EffectiveMaxContentLength(opt) ==
    LET parsed == IF opt = 0 THEN DEFAULT_MAX_CONTENT_LENGTH ELSE opt
    IN  IF parsed > DEFAULT_MAX_CONTENT_LENGTH THEN parsed ELSE DEFAULT_MAX_CONTENT_LENGTH

\* `${req.protocol}://${req.hostname || req.ip || this.host}:${this.port}${pref}`
baseURL == <<"http", "://", "10.0.0.9", ":">> \o port \o prefix

\* a property an object does not have, or has as null
Absent == "<absent>"
Null == "<null>"

\* App info objects: state, pid and allowStop are optional properties (a pid of
\* null is modelled as no pid: the code reads pid only through &&, ?? and a
\* truthiness test, which do not tell the two apart).  additionalData is
\* undefined and namespaces is empty in every app info of the model.
AppInfo(name, state, pid, allowStop) ==
    [k \in {"name"} \cup (IF state = Absent THEN {} ELSE {"state"})
                    \cup (IF pid = Absent THEN {} ELSE {"pid"})
                    \cup (IF allowStop = Absent THEN {} ELSE {"allowStop"}) |->
        CASE k = "name" -> name
          [] k = "state" -> state
          [] k = "pid" -> pid
          [] k = "allowStop" -> (allowStop = "true")]

StateChoices == {Absent, "stopped", "starting"}
PidChoices == {Absent, "", "42"}
AllowStopChoices == {Absent, "true", "false"}

\* the one app the provider knows; any other name is unknown to it
KNOWN_APP == "X"
AppNames == {KNOWN_APP, "Y"}

AppInfos ==
    { AppInfo(KNOWN_APP, s, p, a) : s \in StateChoices, p \in PidChoices, a \in AllowStopChoices }

\* what  this.delegate.getApp?.call(req, appName) ?? null  yields when it is null
NullInfo == [null |-> TRUE]

\* this.delegate.getApp?.call(req, appName) ?? null
getApp(appName) ==
    IF delegate.getApp /\ appName \in DOMAIN apps THEN apps[appName] ELSE NullInfo

\* a property read as a string, for comparison ("<absent>" when it is missing)
Prop(obj, key) == IF key \in DOMAIN obj THEN ToString(obj[key]) ELSE Absent

\* a string property read as a condition
TruthyProp(obj, key) == key \in DOMAIN obj /\ obj[key] # ""

\* appInfo.state || (appInfo.pid && "running") || "stopped"
InferredStateByPidOnly(appInfo) == IF TruthyProp(appInfo, "pid") THEN "running" ELSE "stopped"
InferredState(appInfo) ==
    IF TruthyProp(appInfo, "state") THEN appInfo.state
    ELSE IF TruthyProp(appInfo, "pid") THEN "running" ELSE "stopped"

\* data.rel !== undefined && data.href !== undefined && data.href
HasLinkWhenNotNull(data) == data.rel # Absent /\ data.href # Absent
HasLink(data) == data.rel # Absent /\ data.href # Absent /\ data.href # Null /\ data.href # ""

\* the app description: one tuple per element, in document order
APP_DESC_RENDERER(data) ==
    << <<"service", "dialVer", "1.7">>,
       <<"name", data.name>>,
       <<"options", "allowStop", IF data.allowStop THEN "true" ELSE "false">>,
       <<"state", data.state>> >>
    \o (IF HasLink(data) THEN << <<"link", data.rel, data.href>> >> ELSE <<>>)
    \o << <<"/service">> >>

\* the object the GET handler passes to the renderer
AppDescData(appName, appInfo) ==
    [name |-> appName,
     state |-> InferredState(appInfo),
     allowStop |-> ("allowStop" \in DOMAIN appInfo /\ appInfo.allowStop = TRUE),
     rel |-> "run",
     href |-> IF "pid" \in DOMAIN appInfo THEN appInfo.pid ELSE Null]

NoLocation == <<>>
NoBody == <<>>

\* rsp.sendStatus(code)
SendStatus(code, loc) == [status |-> code, type |-> "text/plain", location |-> loc, body |-> NoBody]
\* rsp.type('application/xml'); rsp.send(xml)
SendXml(xml) == [status |-> 200, type |-> "application/xml", location |-> NoLocation, body |-> xml]

\* content types the body-reading middleware reads (req.is(...))
ReadTypes ==
    { "text/plain", "text/xml", "text/json", "application/xml", "application/json",
      "application/x-www-form-urlencoded" }

CTypes == {"text/plain", "application/octet-stream"}

\* request bodies, by their length in characters (UTF-16 units, what
\* chunk.length counts after setEncoding('utf8')) and in bytes on the wire
Body(chars, bytes) == [chars |-> chars, bytes |-> bytes]
Bodies == { Body(0, 0), Body(4096, 4096), Body(4097, 4097), Body(5001, 5001), Body(3000, 6000) }

\* req.text and req.length where the middleware did not set them
NoText == Body(-1, -1)
UndefinedLength == -1

\* the body-reading middleware
ReqText(req) == IF req.ctype \in ReadTypes /\ req.body.bytes > 0 THEN req.body ELSE NoText
ReqLength(req) ==
    IF req.ctype \in ReadTypes /\ req.body.bytes > 0 THEN req.body.chars ELSE UndefinedLength

\* req.length && req.length > this.maxContentLength
TooLarge(length) == length # UndefinedLength /\ length # 0 /\ length > maxContentLength

\* req.text || null
LaunchData(req) == IF ReqText(req) = NoText \/ ReqText(req).chars = 0 THEN NoText ELSE ReqText(req)

Request(method, appName, pid, ctype, body) ==
    [method |-> method, appName |-> appName, pid |-> pid, ctype |-> ctype, body |-> body]

\* the requests of the model: every content type and body for the known app,
\* a small and an oversized body for the unknown one
GetRequests == { Request("GET", n, "", "", Body(0, 0)) : n \in AppNames }
PostRequests ==
    { Request("POST", KNOWN_APP, "", c, b) : c \in CTypes, b \in Bodies }
    \cup { Request("POST", "Y", "", "text/plain", b) : b \in {Body(0, 0), Body(5001, 5001)} }
DialDataRequests ==
    { Request("POST dial_data", KNOWN_APP, "", c, b) :
        c \in CTypes, b \in {Body(0, 0), Body(5001, 5001)} }
    \cup { Request("POST dial_data", "Y", "", "text/plain", Body(5001, 5001)) }
DeleteRequests ==
    { Request("DELETE", KNOWN_APP, p, "", Body(0, 0)) : p \in {"", "42"} }
    \cup { Request("DELETE", "Y", "42", "", Body(0, 0)) }

NoRequest == Request("", "", "", "", Body(0, 0))

\* what a callback keeps of its request: the handler's appName and state (and,
\* for the history, whether the request is the POST of the scenario)
Closure(pc, appName, state, scenario) ==
    [pc |-> pc, appName |-> appName, state |-> state, scenario |-> scenario]

Idle == Closure("idle", "", "", FALSE)

\* one more request may wait for its hook
HasRoom == BagCardinality(inflight) < MaxInflight

NoResult == [none |-> TRUE]

\* the record of a handler's or a callback's run
Ran(op, req, appInfo, sent, called, closure, result) ==
    [op |-> op, req |-> req, appInfo |-> appInfo, sent |-> sent, called |-> called,
     closure |-> closure, result |-> result]

Quiet == Ran("none", NoRequest, NullInfo, <<>>, <<>>, Idle, NoResult)

\* the app info of the scenario's first two requests, and of its third
IsBare(appInfo) == appInfo # NullInfo /\ "state" \notin DOMAIN appInfo /\ "pid" \notin DOMAIN appInfo
HasPid42Only(appInfo) ==
    appInfo # NullInfo /\ "state" \notin DOMAIN appInfo /\ "pid" \in DOMAIN appInfo /\ appInfo.pid = "42"

\* the history of the POSTs: how many POSTs to the known app were answered since
\* the latest DELETE answered 200 (or since the start), and how many of them
\* were not refused (both counted up to 2), and whether a DELETE was answered
\* 200 so far; and the progress of a pair of
\* POSTs that overlap: 1 when the second one's handler has read a stopped app
\* while the first one's launch hook has not called back, 2 and 3 when the
\* first and the second of the two launches are answered
NoHistory == [posts |-> 0, accepted |-> 0, stopped |-> FALSE, pair |-> 0]
UpTo2(n) == IF n >= 2 THEN 2 ELSE n

\* the request joins a launch that waits for its callback, both having read a
\* stopped app
StartsPair(closure) ==
    /\ closure.state = "stopped"
    /\ BagCardinality(inflight) = 1
    /\ \A c \in BagToSet(inflight) :
          c.pc = "launch" /\ c.state = "stopped" /\ c.appName = closure.appName

\* app.get(`${pref}/apps/:appName`, ...)
HttpGet(req) ==
    /\ req.method = "GET"
    /\ LET appInfo == getApp(req.appName)
           sent == IF appInfo # NullInfo
                   THEN <<SendXml(APP_DESC_RENDERER(AppDescData(req.appName, appInfo)))>>
                   ELSE <<SendStatus(404, NoLocation)>>
       IN  /\ last' = Ran("GET", req, appInfo, sent, <<>>, Idle, NoResult)
           /\ scen' = IF IsBare(appInfo) THEN 1
                      ELSE IF scen = 2 /\ HasPid42Only(appInfo) THEN 3 ELSE 0
    /\ UNCHANGED <<sVars, cVars, dVars, delegate, maxContentLength, apps, inflight, hist>>

\* rsp.sendStatus(state === "stopped" ? 201 : 200)
LaunchStatusFromCurrentState(state) ==
    IF InferredState(apps[KNOWN_APP]) = "stopped" THEN 201 ELSE 200
LaunchStatusUnlessLaunching(state) ==
    IF state = "stopped" /\ BagCardinality(inflight) <= 1 THEN 201 ELSE 200
LaunchStatus(state) == IF state = "stopped" THEN 201 ELSE 200

\* the two tests of the POST handler before the launch hook: what it sends
\* when one of them refuses the request
PostRefusalLengthFirst(appInfo, req) ==
    IF TooLarge(ReqLength(req)) THEN <<SendStatus(413, NoLocation)>>
    ELSE IF appInfo = NullInfo THEN <<SendStatus(404, NoLocation)>>
         ELSE <<>>
PostRefusal(appInfo, req) ==
    IF appInfo = NullInfo THEN <<SendStatus(404, NoLocation)>>
    ELSE IF TooLarge(ReqLength(req)) THEN <<SendStatus(413, NoLocation)>>
         ELSE <<>>

\* app.post(`${pref}/apps/:appName`, ...) up to the call of the launch hook
HttpPost(req) ==
    /\ req \in PostRequests
    /\ LET appInfo == getApp(req.appName)
           proceeds == appInfo # NullInfo /\ ~TooLarge(ReqLength(req))
           launches == proceeds /\ delegate.launchApp
           closure == Closure("launch", req.appName, InferredState(appInfo),
                              scen = 1 /\ IsBare(appInfo))
           sent == PostRefusal(appInfo, req)
           called == IF launches
                     THEN <<[hook |-> "launchApp", appName |-> req.appName, data |-> LaunchData(req)]>>
                     ELSE <<>>
       IN  /\ launches => HasRoom
           /\ inflight' = IF launches THEN inflight (+) SetToBag({closure}) ELSE inflight
           /\ last' = Ran("POST", req, appInfo, sent, called, IF launches THEN closure ELSE Idle, NoResult)
           /\ scen' = IF launches /\ closure.scenario THEN 1 ELSE 0
           /\ hist' = [hist EXCEPT !.pair = IF ~launches THEN @
                                             ELSE IF StartsPair(closure) THEN 1 ELSE 0]
    /\ UNCHANGED <<sVars, cVars, dVars, delegate, maxContentLength, apps>>

\* what the launch callback sends: if (err) ... else if (pid) ... else ...
LaunchSentPidFirst(closure, pid, err) ==
    IF pid # Null /\ pid # ""
    THEN <<SendStatus(IF err THEN 503 ELSE LaunchStatus(closure.state),
                      baseURL \o <<"/apps/", closure.appName, "/", pid>>)>>
    ELSE <<SendStatus(IF err THEN 503 ELSE LaunchStatus(closure.state), NoLocation)>>
LaunchSent(closure, pid, err) ==
    IF err THEN <<SendStatus(503, NoLocation)>>
    ELSE IF pid # Null /\ pid # ""
         THEN <<SendStatus(LaunchStatus(closure.state),
                           baseURL \o <<"/apps/", closure.appName, "/", pid>>)>>
         ELSE <<SendStatus(LaunchStatus(closure.state), NoLocation)>>

\* the callback the POST handler passes to the launch hook
LaunchCallback(closure, pid, err) ==
    /\ BagIn(closure, inflight)
    /\ closure.pc = "launch"
    /\ LET sent == LaunchSent(closure, pid, err)
       IN  /\ last' = Ran("launchCallback", NoRequest, NullInfo, sent, <<>>, closure,
                          [pid |-> pid, err |-> err])
           /\ scen' = IF closure.scenario /\ scen = 1 /\ pid = "42" /\ ~err THEN 2 ELSE 0
    /\ inflight' = inflight (-) SetToBag({closure})
    /\ hist' = [hist EXCEPT !.pair = IF @ \in {1, 2} /\ closure.state = "stopped" /\ ~err
                                      THEN @ + 1 ELSE 0]
    /\ UNCHANGED <<sVars, cVars, dVars, delegate, maxContentLength, apps>>

\* app.post(`${pref}/apps/:appName/dial_data`, ...)
HttpPostDialData(req) ==
    /\ req \in DialDataRequests
    /\ LET appInfo == getApp(req.appName)
           sent == IF appInfo = NullInfo THEN <<SendStatus(404, NoLocation)>>
                   ELSE IF TooLarge(ReqLength(req)) THEN <<SendStatus(413, NoLocation)>>
                        ELSE <<SendStatus(501, NoLocation)>>
       IN  last' = Ran("POST dial_data", req, appInfo, sent, <<>>, Idle, NoResult)
    /\ scen' = 0
    /\ UNCHANGED <<sVars, cVars, dVars, delegate, maxContentLength, apps, inflight, hist>>

\* appInfo.allowStop read as a condition
AllowStopAlways(appInfo) == TRUE
AllowStop(appInfo) == "allowStop" \in DOMAIN appInfo /\ appInfo.allowStop = TRUE

\* the three tests of the DELETE handler before the stop hook: what it sends
\* when one of them refuses the request
DeleteRefusal(appInfo, req) ==
    IF appInfo = NullInfo THEN <<SendStatus(404, NoLocation)>>
    ELSE IF ~AllowStop(appInfo) THEN <<SendStatus(405, NoLocation)>>
         ELSE IF req.pid = "" THEN <<SendStatus(400, NoLocation)>>
              ELSE <<>>

\* what the stop callback sends
StopSent(stopped) == <<SendStatus(IF stopped THEN 200 ELSE 400, NoLocation)>>

\* app.delete(`${pref}/apps/:appName/:pid`, ...) up to the call of the stop hook
HttpDelete(req) ==
    /\ req \in DeleteRequests
    /\ LET appInfo == getApp(req.appName)
           proceeds == appInfo # NullInfo /\ AllowStop(appInfo) /\ req.pid # ""
           stops == proceeds /\ delegate.stopApp
           closure == Closure("stop", req.appName, "", FALSE)
           sent == DeleteRefusal(appInfo, req)
           called == IF stops
                     THEN <<[hook |-> "stopApp", appName |-> req.appName, pid |-> req.pid]>>
                     ELSE <<>>
       IN  /\ stops => HasRoom
           /\ inflight' = IF stops THEN inflight (+) SetToBag({closure}) ELSE inflight
           /\ last' = Ran("DELETE", req, appInfo, sent, called, IF stops THEN closure ELSE Idle, NoResult)
           /\ hist' = [hist EXCEPT !.pair = IF stops THEN 0 ELSE @]
    /\ scen' = 0
    /\ UNCHANGED <<sVars, cVars, dVars, delegate, maxContentLength, apps>>

\* the callback the DELETE handler passes to the stop hook
StopCallback(closure, stopped) ==
    /\ BagIn(closure, inflight)
    /\ closure.pc = "stop"
    /\ last' = Ran("stopCallback", NoRequest, NullInfo, StopSent(stopped), <<>>,
                   closure, [stopped |-> stopped])
    /\ inflight' = inflight (-) SetToBag({closure})
    /\ scen' = 0
    /\ UNCHANGED <<sVars, cVars, dVars, delegate, maxContentLength, apps, hist>>

\* the provider changes what it reports for the app (a hook of another request
\* at work, or the app itself)
ProviderChange(info) ==
    /\ info # apps[KNOWN_APP]
    /\ Cardinality({ k \in {"state", "pid", "allowStop"} :
            Prop(info, k) # Prop(apps[KNOWN_APP], k) }) = 1
    /\ apps' = [apps EXCEPT ![KNOWN_APP] = info]
    /\ last' = Quiet
    /\ UNCHANGED <<sVars, cVars, dVars, delegate, maxContentLength, inflight, scen, hist>>

Delegates == [getApp : BOOLEAN, launchApp : BOOLEAN, stopApp : BOOLEAN]
AllHooks == [getApp |-> TRUE, launchApp |-> TRUE, stopApp |-> TRUE]

InitHttpState ==
    /\ apps \in [{KNOWN_APP} -> AppInfos]
    /\ inflight = EmptyBag
    /\ last = Quiet
    /\ scen = 0
    /\ hist = NoHistory

InitHttp ==
    /\ delegate = AllHooks
    /\ maxContentLength \in { EffectiveMaxContentLength(opt) : opt \in MaxContentLengthOptions }
    /\ InitHttpState

\* the HTTP side at rest, for the specifications of the other components
InitHttpQuiet ==
    /\ delegate = AllHooks
    /\ maxContentLength = DEFAULT_MAX_CONTENT_LENGTH
    /\ apps = [n \in {KNOWN_APP} |-> AppInfo(KNOWN_APP, Absent, Absent, Absent)]
    /\ inflight = EmptyBag
    /\ last = Quiet
    /\ scen = 0
    /\ hist = NoHistory

InitHooks ==
    /\ delegate \in Delegates
    /\ maxContentLength = DEFAULT_MAX_CONTENT_LENGTH
    /\ InitHttpState

NextHttp ==
    \/ \E req \in GetRequests : HttpGet(req)
    \/ \E req \in PostRequests : HttpPost(req)
    \/ \E closure \in BagToSet(inflight), pid \in {Null, "", "42"}, err \in BOOLEAN :
            LaunchCallback(closure, pid, err)
    \/ \E req \in DialDataRequests : HttpPostDialData(req)
    \/ \E req \in DeleteRequests : HttpDelete(req)
    \/ \E closure \in BagToSet(inflight), stopped \in BOOLEAN : StopCallback(closure, stopped)
    \/ \E info \in AppInfos : ProviderChange(info)

\* ------------------------------------------- the demo server's app provider

\* the one app of the demo server's table; any other name is unknown to it
DEMO_APP == "YouTube"
DemoNames == {DEMO_APP, "Netflix"}

\* const apps = { "YouTube": { name: "YouTube", state: "stopped", allowStop: true, pid: null, ... } }
demoApps == [n \in {DEMO_APP} |-> AppInfo(DEMO_APP, "stopped", Absent, "true")]

\* app.pid = value (null removes the property: a pid of null is no pid)
SetPid(app, value) ==
    [k \in IF value = Null THEN (DOMAIN app) \ {"pid"} ELSE (DOMAIN app) \cup {"pid"} |->
        IF k = "pid" THEN value ELSE app[k]]

\* app.state = value
SetState(app, value) ==
    [k \in (DOMAIN app) \cup {"state"} |-> IF k = "state" THEN value ELSE app[k]]

\* delegate.launchApp up to its callback: app.pid = "run"; app.state = "starting";
\* app.launch(launchData); app.state = "running"
demoLaunchAppPidOnly(table, appName) ==
    IF appName \in DOMAIN table
    THEN [table EXCEPT ![appName] = SetPid(@, "run")]
    ELSE table
demoLaunchApp(table, appName) ==
    IF appName \in DOMAIN table
    THEN [table EXCEPT ![appName] = SetState(SetState(SetPid(@, "run"), "starting"), "running")]
    ELSE table

\* app && app.pid == pid
demoPidMatchesAlways(table, appName, pid) == appName \in DOMAIN table
demoPidMatches(table, appName, pid) ==
    /\ appName \in DOMAIN table
    /\ "pid" \in DOMAIN table[appName]
    /\ table[appName].pid = pid

\* delegate.stopApp up to its callback: app.pid = null; app.state = "stopped"
demoStopAppKeepsPid(table, appName, pid) ==
    IF demoPidMatches(table, appName, pid)
    THEN [table EXCEPT ![appName] = SetState(@, "stopped")]
    ELSE table
demoStopApp(table, appName, pid) ==
    IF demoPidMatches(table, appName, pid)
    THEN [table EXCEPT ![appName] = SetState(SetPid(@, Null), "stopped")]
    ELSE table

\* the requests to the demo server
DemoGetRequests == { Request("GET", n, "", "", Body(0, 0)) : n \in DemoNames }
DemoPostRequests ==
    { Request("POST", DEMO_APP, "", c, b) :
        c \in CTypes, b \in {Body(0, 0), Body(4096, 4096), Body(4097, 4097), Body(5001, 5001)} }
    \cup { Request("POST", "Netflix", "", "text/plain", Body(0, 0)) }
DemoDeleteRequests ==
    { Request("DELETE", DEMO_APP, p, "", Body(0, 0)) : p \in {"", "run", "42"} }
    \cup { Request("DELETE", "Netflix", "run", "", Body(0, 0)) }

\* GET /apps/{name} of the demo server: the get hook returns the table's entry
DemoGet(req) ==
    /\ req.appName \in DemoNames
    /\ HttpGet(req)

\* POST /apps/{name} of the demo server: the launch hook calls back before it
\* returns, so the handler, the hook and the callback are one step
DemoPost(req) ==
    /\ LET appInfo == getApp(req.appName)
           launches == PostRefusal(appInfo, req) = <<>> /\ delegate.launchApp
           closure == Closure("launch", req.appName, InferredState(appInfo), FALSE)
           after == IF launches THEN demoLaunchApp(apps, req.appName) ELSE apps
           pid == IF launches THEN after[req.appName].pid ELSE Null
           called == IF launches
                     THEN <<[hook |-> "launchApp", appName |-> req.appName, data |-> LaunchData(req)]>>
                     ELSE <<>>
           sent == IF launches THEN LaunchSent(closure, pid, FALSE) ELSE PostRefusal(appInfo, req)
       IN  /\ apps' = after
           /\ last' = Ran("POST", req, appInfo, sent, called, IF launches THEN closure ELSE Idle,
                          IF launches THEN [pid |-> pid, err |-> FALSE] ELSE NoResult)
           /\ hist' = IF req.appName \in DOMAIN apps
                      THEN [hist EXCEPT !.posts = UpTo2(@ + 1),
                                        !.accepted = IF launches THEN UpTo2(@ + 1) ELSE @]
                      ELSE hist
    /\ scen' = 0
    /\ UNCHANGED <<sVars, cVars, dVars, delegate, maxContentLength, inflight>>

\* DELETE /apps/{name}/{pid} of the demo server: the stop hook calls back before
\* it returns
DemoDelete(req) ==
    /\ LET appInfo == getApp(req.appName)
           stops == DeleteRefusal(appInfo, req) = <<>> /\ delegate.stopApp
           stopped == stops /\ demoPidMatches(apps, req.appName, req.pid)
           called == IF stops
                     THEN <<[hook |-> "stopApp", appName |-> req.appName, pid |-> req.pid]>>
                     ELSE <<>>
           sent == IF stops THEN StopSent(stopped) ELSE DeleteRefusal(appInfo, req)
       IN  /\ apps' = IF stops THEN demoStopApp(apps, req.appName, req.pid) ELSE apps
           /\ last' = Ran("DELETE", req, appInfo, sent, called,
                          IF stops THEN Closure("stop", req.appName, "", FALSE) ELSE Idle,
                          IF stops THEN [stopped |-> stopped] ELSE NoResult)
           /\ hist' = IF stopped
                      THEN [hist EXCEPT !.posts = 0, !.accepted = 0, !.stopped = TRUE]
                      ELSE hist
    /\ scen' = 0
    /\ UNCHANGED <<sVars, cVars, dVars, delegate, maxContentLength, inflight>>

\* the demo server: all three hooks, no maxContentLength option, the table as
\* the script builds it
InitDemo ==
    /\ delegate = AllHooks
    /\ maxContentLength = EffectiveMaxContentLength(0)
    /\ apps = demoApps
    /\ inflight = EmptyBag
    /\ last = Quiet
    /\ scen = 0
    /\ hist = NoHistory

NextDemo ==
    \/ \E req \in DemoGetRequests : DemoGet(req)
    \/ \E req \in DemoPostRequests : DemoPost(req)
    \/ \E req \in DemoDeleteRequests : DemoDelete(req)

\* ------------------------------------------- Client.getDialDevice, DialDevice

\* XML text is a sequence of tokens: the tags of the template, and the text
\* between them as string fragments.  A fragment is a run of characters without
\* markup and without blanks, or one of the single characters "<", "&", " ";
\* the renderers splice the values in as they are (they escape nothing).  The
\* XML declaration, the xmlns attribute of the root and the line breaks and
\* indentation between the elements are left out.
Open(n) == [t |-> "open", v |-> n]
Close(n) == [t |-> "close", v |-> n]
Text(str) == [i \in 1..Len(str) |-> [t |-> "text", v |-> str[i]]]
Element(n, content) == <<Open(n)>> \o content \o <<Close(n)>>
Leaf(n, str) == Element(n, Text(str))

\* the device description template
DEVICE_DESC_RENDERER(data) ==
    Element("root",
        Element("specVersion", Leaf("major", <<"1">>) \o Leaf("minor", <<"0">>))
        \o Leaf("URLBase", data.URLBase)
        \o Element("device",
              Leaf("deviceType", <<"urn:dial-multiscreen-org:device:dial:1">>)
              \o Leaf("friendlyName", data.friendlyName)
              \o Leaf("manufacturer", data.manufacturer)
              \o Leaf("modelName", data.modelName)
              \o Leaf("UDN", <<"uuid:">> \o data.uuid)
              \o Element("iconList",
                    Element("icon",
                        Leaf("mimetype", <<"image/png">>)
                        \o Leaf("width", <<"144">>)
                        \o Leaf("height", <<"144">>)
                        \o Leaf("depth", <<"32">>)
                        \o Leaf("url", <<"/img/icon.png">>)))
              \o Element("serviceList",
                    Element("service",
                        Leaf("serviceType", <<"urn:dial-multiscreen-org:service:dial:1">>)
                        \o Leaf("serviceId", <<"urn:dial-multiscreen-org:serviceId:dial">>)
                        \o Leaf("controlURL", <<"/ssdp/notfound">>)
                        \o Leaf("eventSubURL", <<"/ssdp/notfound">>)
                        \o Leaf("SCPDURL", <<"/ssdp/notfound">>)))))

\* characters that are markup when they stand in the text of a document
MarkupChars == {"<", "&"}

\* trim: true
RECURSIVE TrimLeft(_)
TrimLeft(str) == IF str # <<>> /\ str[1] = " " THEN TrimLeft(Tail(str)) ELSE str
RECURSIVE TrimRight(_)
TrimRight(str) ==
    IF str # <<>> /\ str[Len(str)] = " " THEN TrimRight(SubSeq(str, 1, Len(str) - 1)) ELSE str
Trim(str) == TrimRight(TrimLeft(str))

NoChildren == [k \in {} |-> <<>>]
ParseFailed == [ok |-> FALSE, children |-> NoChildren, text |-> <<>>, next |-> 0]

\* explicitArray: false: an element with child elements is an object of them,
\* an element with text only is its trimmed text, an empty element is ""
ElementValue(parsed) ==
    IF DOMAIN parsed.children = {} THEN Trim(parsed.text) ELSE parsed.children

SetChild(children, n, value) ==
    [k \in (DOMAIN children) \cup {n} |-> IF k = n THEN value ELSE children[k]]

\* the content of an element from token i on, up to the close tag that ends it
RECURSIVE ParseContent(_, _, _, _)
ParseContent(xml, i, children, text) ==
    IF i > Len(xml) THEN ParseFailed
    ELSE CASE xml[i].t = "text" ->
                IF xml[i].v \in MarkupChars THEN ParseFailed
                ELSE ParseContent(xml, i + 1, children, Append(text, xml[i].v))
           [] xml[i].t = "close" ->
                [ok |-> TRUE, children |-> children, text |-> text, next |-> i]
           [] xml[i].t = "open" ->
                LET sub == ParseContent(xml, i + 1, NoChildren, <<>>)
                IN  IF ~sub.ok THEN ParseFailed
                    ELSE IF xml[sub.next].v # xml[i].v THEN ParseFailed
                    ELSE ParseContent(xml, sub.next + 1,
                                      SetChild(children, xml[i].v, ElementValue(sub)), text)

\* xml2js.parseString(text, {trim: true, explicitArray: false}, ...): an error,
\* or the document as an object with the root element as its one property
\* (null for a document without text)
parseString(xml) ==
    IF xml = <<>> THEN [err |-> FALSE, null |-> TRUE, result |-> NoChildren]
    ELSE IF xml[1].t # "open" THEN [err |-> TRUE, null |-> TRUE, result |-> NoChildren]
    ELSE LET sub == ParseContent(xml, 2, NoChildren, <<>>)
         IN  IF ~sub.ok \/ sub.next # Len(xml) \/ xml[Len(xml)].v # xml[1].v
             THEN [err |-> TRUE, null |-> TRUE, result |-> NoChildren]
             ELSE [err |-> FALSE, null |-> FALSE,
                   result |-> [k \in {xml[1].v} |-> ElementValue(sub)]]

\* an optional property read: undefined when the object does not have it
Field(obj, key) == IF key \in DOMAIN obj THEN obj[key] ELSE Undefined

\* new DialDevice(deviceInfo); the parser never yields an array for iconList
\* (the template has one icon)
DialDevice(deviceInfo) ==
    [descriptionUrl |-> Field(deviceInfo, "descriptionUrl"),
     applicationUrl |-> Field(deviceInfo, "applicationUrl"),
     deviceType |-> Field(deviceInfo, "deviceType"),
     friendlyName |-> Field(deviceInfo, "friendlyName"),
     manufacturer |-> Field(deviceInfo, "manufacturer"),
     modelName |-> Field(deviceInfo, "modelName"),
     UDN |-> Field(deviceInfo, "UDN"),
     icons |-> IF "iconList" \in DOMAIN deviceInfo /\ "icon" \in DOMAIN deviceInfo.iconList
               THEN <<deviceInfo.iconList.icon>> ELSE <<>>]

\* what a callback is called with: (result, err), result null and err
\* undefined when they are not given
NoValue == <<>>
NoError == [kind |-> "none", code |-> ""]
Error(kind, code) == [kind |-> kind, code |-> code]
CallbackResult(result) == [hasResult |-> TRUE, result |-> result, hasErr |-> FALSE, err |-> NoError]
CallbackError(err) == [hasResult |-> FALSE, result |-> NoValue, hasErr |-> TRUE, err |-> err]
CallbackNothing == [hasResult |-> FALSE, result |-> NoValue, hasErr |-> FALSE, err |-> NoError]

\* an outbound HTTP request: its headers, and the body written (if any)
HttpRequest(method, url, headers, written, body) ==
    [method |-> method, url |-> url, headers |-> headers, written |-> written, body |-> body]

\* what the response handlers keep of the call
Call(op, url) == [op |-> op, url |-> url]

HasOutboundRoom == BagCardinality(outbound) < MaxOutbound

\* the record of a call's or a response handler's run
DRan(op, input, requests, callbacks) ==
    [op |-> op, input |-> input, requests |-> requests, callbacks |-> callbacks]

DQuiet == DRan("none", NoChildren, <<>>, <<>>)

DESCRIPTION_URL == LOC1
APPLICATION_URL == <<"http://10.0.0.1:3000/dial/apps">>

\* the Device data a remote Server renders its description from
DeviceDatas ==
    { [URLBase |-> <<"http://10.0.0.1:3000/dial">>, friendlyName |-> f, manufacturer |-> m,
       modelName |-> <<"X">>, uuid |-> <<"abc">>] :
        f \in { <<"R">>, <<"R", "&", "D">>, <<" ", "R">>, <<"Living", " ", "Room">> },
        m \in { <<"M">>, <<>> } }

\* the documents a description fetch may be answered with: a rendered
\* description, one cut off before its end, a root without device, no text
Document(kind, data, text) == [kind |-> kind, data |-> data, text |-> text]
NoData == [URLBase |-> <<>>, friendlyName |-> <<>>, manufacturer |-> <<>>, modelName |-> <<>>,
           uuid |-> <<>>]
Documents ==
    { Document("rendered", data, DEVICE_DESC_RENDERER(data)) : data \in DeviceDatas }
    \cup { Document("cut off", NoData, <<Open("root"), Open("device")>>),
           Document("no device", NoData, Element("root", Leaf("URLBase", <<"x">>))),
           Document("empty", NoData, <<>>) }

\* the Application-URL header of the response: missing, set, set with a trailing slash
ApplicationUrlHeaders == { Undefined, APPLICATION_URL, APPLICATION_URL \o <<"/">> }

\* Client.getDialDevice(deviceDescriptionUrl, callback) up to http.get
GetDialDevice(url) ==
    /\ HasOutboundRoom
    /\ outbound' = outbound (+) SetToBag({Call("getDialDevice", url)})
    /\ dLast' = DRan("getDialDevice", [url |-> url],
                     <<HttpRequest("GET", url, NoHeaders, FALSE, <<>>)>>, <<>>)
    /\ UNCHANGED <<sVars, cVars, hVars, device>>

\* applicationUrl.endsWith("/") ? applicationUrl.slice(0, -1) : applicationUrl
StripSlash(url) == IF url[Len(url)] = "/" THEN SubSeq(url, 1, Len(url) - 1) ELSE url

\* the response handler of getDialDevice, 'end' included: what it calls back
DialDeviceCompletion(url, status, header, doc) ==
    IF status = 200 /\ Truthy(header)
    THEN LET parsed == parseString(doc.text)
         IN  IF parsed.err THEN CallbackError(Error("parse", ""))
             ELSE IF parsed.null \/ "root" \notin DOMAIN parsed.result
                        \/ "device" \notin DOMAIN parsed.result.root
                  THEN CallbackError(Error("type", ""))
                  ELSE CallbackResult(DialDevice(
                            SetChild(SetChild(parsed.result.root.device, "descriptionUrl", url),
                                     "applicationUrl", StripSlash(header))))
    ELSE CallbackError(Error("description", ""))

DescriptionResponse(call, status, header, doc) ==
    /\ BagIn(call, outbound)
    /\ call.op = "getDialDevice"
    /\ LET completion == DialDeviceCompletion(call.url, status, header, doc)
       IN  /\ dLast' = DRan("description response",
                            [status |-> status, header |-> header, doc |-> doc],
                            <<>>, <<completion>>)
           /\ device' = IF completion.hasResult THEN completion.result ELSE device
    /\ outbound' = outbound (-) SetToBag({call})
    /\ UNCHANGED <<sVars, cVars, hVars>>

\* this.applicationUrl && appName ? `${this.applicationUrl}/${appName}` : null
NoUrl == <<>>
AppUrl(dev, appName) ==
    IF Truthy(dev.applicationUrl) /\ appName # ""
    THEN dev.applicationUrl \o <<"/", appName>> ELSE NoUrl

\* the app descriptions a receiver may answer with: no text, a description of a
\* stopped and of a running app, one cut off before its end
AppInfoBodies ==
    LET stopped == APP_DESC_RENDERER(AppDescData("X", AppInfo("X", Absent, Absent, Absent)))
        running == APP_DESC_RENDERER(AppDescData("X", AppInfo("X", Absent, "42", "true")))
    IN  { <<>>, stopped, running, SubSeq(running, 1, Len(running) - 1) }

\* xml2js.parseString of an app description (explicitRoot: false, mergeAttrs:
\* true, explicitArray: false): an error, or the children and attributes of
\* <service> as one object
ParseAppInfo(xml) ==
    IF Len(xml) < 2 \/ xml[1][1] # "service" \/ xml[Len(xml)] # <<"/service">>
    THEN [err |-> TRUE, result |-> NoChildren]
    ELSE [err |-> FALSE,
          result |->
            [k \in {xml[1][2]} \cup { xml[i][1] : i \in 2..(Len(xml) - 1) } |->
                IF k = xml[1][2] THEN xml[1][3]
                ELSE LET e == xml[CHOOSE i \in 2..(Len(xml) - 1) : xml[i][1] = k]
                     IN  IF k = "options" THEN [allowStop |-> e[3]]
                         ELSE IF k = "link" THEN [rel |-> e[2], href |-> e[3]]
                         ELSE e[2]]]

\* the callback getAppInfo passes to getAppInfoXml: (appInfoXml, err) to (appInfo, err)
AppInfoCompletion(xmlCallback) ==
    IF ~(xmlCallback.hasResult /\ xmlCallback.result # <<>>) \/ xmlCallback.hasErr
    THEN IF xmlCallback.hasErr THEN CallbackError(xmlCallback.err) ELSE CallbackNothing
    ELSE LET parsed == ParseAppInfo(xmlCallback.result)
         IN  IF parsed.err THEN CallbackError(Error("parse", ""))
             ELSE CallbackResult(parsed.result)

\* DialDevice.getAppInfo(appName, callback) up to http.get
DeviceGetAppInfo(appName) ==
    /\ LET appUrl == AppUrl(device, appName)
       IN  IF appUrl = NoUrl
           THEN /\ dLast' = DRan("getAppInfo", [appName |-> appName], <<>>,
                                 <<AppInfoCompletion(CallbackError(Error("argument", "")))>>)
                /\ outbound' = outbound
           ELSE /\ HasOutboundRoom
                /\ dLast' = DRan("getAppInfo", [appName |-> appName],
                                 <<HttpRequest("GET", appUrl, NoHeaders, FALSE, <<>>)>>, <<>>)
                /\ outbound' = outbound (+) SetToBag({Call("getAppInfo", appUrl)})
    /\ UNCHANGED <<sVars, cVars, hVars, device>>

\* the response handler of getAppInfoXml, 'end' included
AppInfoXmlCompletion(status, body) ==
    IF status = 200 THEN CallbackResult(body)
    ELSE CallbackError(Error("status", ToString(status)))

AppInfoResponse(call, status, body) ==
    /\ BagIn(call, outbound)
    /\ call.op = "getAppInfo"
    /\ dLast' = DRan("app info response", [status |-> status, body |-> body], <<>>,
                     <<AppInfoCompletion(AppInfoXmlCompletion(status, body))>>)
    /\ outbound' = outbound (-) SetToBag({call})
    /\ UNCHANGED <<sVars, cVars, hVars, device>>

\* JavaScript strings as sequences of code points: their length in UTF-16
\* units and Buffer.byteLength, their length in UTF-8 bytes
RECURSIVE byteLength(_)
byteLength(str) ==
    IF str = <<>> THEN 0
    ELSE (IF str[1] < 128 THEN 1 ELSE IF str[1] < 2048 THEN 2 ELSE IF str[1] < 65536 THEN 3 ELSE 4)
            + byteLength(Tail(str))
RECURSIVE length(_)
length(str) ==
    IF str = <<>> THEN 0 ELSE (IF str[1] < 65536 THEN 1 ELSE 2) + length(Tail(str))

\* the launchData argument: null or a string
LaunchString(str) == [null |-> FALSE, str |-> str]
NullData == [null |-> TRUE, str |-> <<>>]
LaunchDatas ==
    { NullData, LaunchString(<<>>), LaunchString(<<97, 98, 99>>), LaunchString(<<233>>),
      LaunchString(<<8364, 97>>), LaunchString(<<128512>>) }
TruthyData(launchData) == ~launchData.null /\ launchData.str # <<>>

\* the contentType argument: null, "" or a type
ContentTypes == { Null, "", "application/json" }

\* (launchData && Buffer.byteLength(launchData)) || 0
ContentLengthInChars(launchData) == IF TruthyData(launchData) THEN length(launchData.str) ELSE 0
ContentLength(launchData) == IF TruthyData(launchData) THEN byteLength(launchData.str) ELSE 0

\* contentType || 'text/plain; charset="utf-8"'
ContentTypeOrDefault(contentType) ==
    IF contentType # Null /\ contentType # "" THEN contentType
    ELSE "text/plain; charset=\"utf-8\""

\* DialDevice.launchApp(appName, launchData, contentType, callback) up to req.end()
DeviceLaunchApp(appName, launchData, contentType) ==
    /\ LET appUrl == AppUrl(device, appName)
           headers == [k \in {"CONTENT-TYPE", "CONTENT-LENGTH"} |->
                          IF k = "CONTENT-TYPE" THEN ContentTypeOrDefault(contentType)
                          ELSE ContentLength(launchData)]
           input == [appName |-> appName, launchData |-> launchData, contentType |-> contentType]
       IN  IF appUrl = NoUrl
           THEN /\ dLast' = DRan("launchApp", input, <<>>, <<CallbackError(Error("argument", ""))>>)
                /\ outbound' = outbound
           ELSE /\ HasOutboundRoom
                /\ dLast' = DRan("launchApp", input,
                                 <<HttpRequest("POST", appUrl, headers, TruthyData(launchData),
                                               IF TruthyData(launchData) THEN launchData.str ELSE <<>>)>>,
                                 <<>>)
                /\ outbound' = outbound (+) SetToBag({Call("launchApp", appUrl)})
    /\ UNCHANGED <<sVars, cVars, hVars, device>>

\* the response handler of launchApp, 'end' included
LaunchCompletion(status, body) ==
    IF status >= 400 THEN CallbackError(Error("status", ToString(status)))
    ELSE CallbackResult(body)

LaunchResponse(call, status, body) ==
    /\ BagIn(call, outbound)
    /\ call.op = "launchApp"
    /\ dLast' = DRan("launch response", [status |-> status, body |-> body], <<>>,
                     <<LaunchCompletion(status, body)>>)
    /\ outbound' = outbound (-) SetToBag({call})
    /\ UNCHANGED <<sVars, cVars, hVars, device>>

\* the 'error' handler of an outbound request: callback(null, err)
RequestError(call) ==
    /\ BagIn(call, outbound)
    /\ dLast' = DRan("request error", [op |-> call.op], <<>>,
                     <<IF call.op = "getAppInfo"
                       THEN AppInfoCompletion(CallbackError(Error("transport", "")))
                       ELSE CallbackError(Error("transport", ""))>>)
    /\ outbound' = outbound (-) SetToBag({call})
    /\ UNCHANGED <<sVars, cVars, hVars, device>>

\* the devices the calls start from: one built from a fetched description, one
\* constructed without an application URL
InitialDevices ==
    { DialDevice([applicationUrl |-> APPLICATION_URL, descriptionUrl |-> DESCRIPTION_URL,
                  friendlyName |-> <<"R">>]),
      DialDevice(NoChildren) }

InitDeviceState ==
    /\ outbound = EmptyBag
    /\ dLast = DQuiet

InitDevice == device \in InitialDevices /\ InitDeviceState

\* the Client's outbound side at rest, for the specifications of the other components
InitDeviceQuiet == device = DialDevice(NoChildren) /\ InitDeviceState

NextDevice ==
    \/ GetDialDevice(DESCRIPTION_URL)
    \/ \E call \in BagToSet(outbound), status \in {200, 404}, header \in ApplicationUrlHeaders,
          doc \in Documents : DescriptionResponse(call, status, header, doc)
    \/ \E appName \in {"X", ""} : DeviceGetAppInfo(appName)
    \/ \E call \in BagToSet(outbound), status \in {200, 204, 404}, body \in AppInfoBodies :
            AppInfoResponse(call, status, body)
    \/ \E appName \in {"X", ""}, launchData \in LaunchDatas, contentType \in ContentTypes :
            DeviceLaunchApp(appName, launchData, contentType)
    \/ \E call \in BagToSet(outbound), status \in {200, 201, 400, 503}, body \in {<<>>, <<"ok">>} :
            LaunchResponse(call, status, body)
    \/ \E call \in BagToSet(outbound) : RequestError(call)

\* ---------------------------------------------------------- specifications

\* the Server's SSDP side, for every choice of extra headers
InitSpecAdvert == InitAdvert /\ InitClient /\ InitHttpQuiet /\ InitDeviceQuiet
SpecAdvert == InitSpecAdvert /\ [][NextAdvert]_vars

\* the Server's replies to searches, for every choice of extra headers
InitSpecSearch == InitAdvert /\ InitClient /\ InitHttpQuiet /\ InitDeviceQuiet
SpecSearch == InitSpecSearch /\ [][NextSearch]_vars

\* the Client
InitSpecClient == InitAdvertQuiet /\ InitClient /\ InitHttpQuiet /\ InitDeviceQuiet
SpecClient == InitSpecClient /\ [][NextClient]_vars

\* the Server's HTTP side with all three hooks, for every app info and maximum
InitSpecHttp == InitAdvertQuiet /\ InitClient /\ InitHttp /\ InitDeviceQuiet
SpecHttp == InitSpecHttp /\ [][NextHttp]_vars

\* the Server's HTTP side for every delegate configuration
InitSpecHooks == InitAdvertQuiet /\ InitClient /\ InitHooks /\ InitDeviceQuiet
SpecHooks == InitSpecHooks /\ [][NextHttp]_vars

\* Client.getDialDevice and the calls of the DialDevice
InitSpecDevice == InitAdvertQuiet /\ InitClient /\ InitHttpQuiet /\ InitDevice
SpecDevice == InitSpecDevice /\ [][NextDevice]_vars

\* the demo server: its Server with the demo provider
InitSpecDemo == InitAdvertQuiet /\ InitClient /\ InitDemo /\ InitDeviceQuiet
SpecDemo == InitSpecDemo /\ [][NextDemo]_vars

\* ------------------------------------------------------------------ claims

\* the five service types, written out
FiveTypes ==
    { <<"urn:dial-multiscreen-org:service:dial:1">>,
      <<"urn:dial-multiscreen-org:device:dial:1">>,
      <<"upnp:rootdevice">>,
      <<"ssdp:all">>,
      <<"uuid:", "abc">> }

DeviceDescLocation == <<"http://{{networkInterfaceAddress}}:", "3000", "/dial", "/ssdp/device-desc.xml">>

\* the positions of the messages of a kind, and of a kind and a type, in an output
OfKind(out, kind) == { i \in 1..Len(out) : out[i].kind = kind }
OfKindAndType(out, kind, st) ==
    { i \in OfKind(out, kind) : "NT" \in DOMAIN out[i].headers /\ out[i].headers.NT = st }

\* C1: one call of Server.stop() sends exactly one byebye for each of the five
\* service types (and nothing else), and a stop call has invoked the
\* transport's close() only if all five of its byebyes are acknowledged,
\* whatever the order of the acknowledgments; close() is invoked by an
\* acknowledgment only.
C1_StopSendsFiveByebyesThenCloses ==
    /\ sOp = "stop" =>
          /\ Len(sOut) = 5
          /\ \A st \in FiveTypes : Cardinality(OfKindAndType(sOut, "byebye", st)) = 1
    /\ \A c \in DOMAIN stopCalls : stopCalls[c].closes > 0 => stopCalls[c].pending = {}
    /\ OfKind(sOut, "close") # {} => sOp = "ack"

\* a stop call has closed the transport after its five acknowledgments, while
\* another call has its third and fifth byebye acknowledged before the others
C1_Witness ==
    \E c, d \in DOMAIN stopCalls :
        /\ stopCalls[c].closes = 1 /\ stopCalls[c].pending = {}
        /\ stopCalls[d].pending = {1, 2, 4}

\* C2 as stated: no "found" is emitted for a location that had a "found" and
\* no "disappear" since.
C2_FoundOncePerDisappear ==
    [][\A l \in Emitted(cOut, "found")' : l \notin foundOpen]_vars

\* C2, amended: no "found" is emitted for a location that had a "found" since
\* the last refresh() and no "disappear" since that "found".
C2_FoundOncePerDisappearOrRefresh ==
    [][\A l \in Emitted(cOut, "found")' : l \notin tracked]_vars

\* a second "found" for a location, after its "disappear"
C2_Witness ==
    /\ LOC1 \in Emitted(cOut, "found")
    /\ LOC1 \in disappeared

\* C3: "disappear" is emitted by the notify handler only, for a location that
\* is recorded; it removes the record and carries the recorded headers; a
\* notify that emits nothing changes nothing.
C3_DisappearOnlyForRecorded ==
    [][/\ \A i \in OfKind(cOut', "disappear") :
            /\ cOp' = "notify"
            /\ cOut'[i].location \in DOMAIN services
            /\ cOut'[i].location \notin DOMAIN services'
            /\ cOut'[i].headers = services[cOut'[i].location]
       /\ (cOp' = "notify" /\ cOut' = <<>>) => services' = services]_vars

\* the statuses a handler or callback sent
Statuses(ran) == [i \in 1..Len(ran.sent) |-> ran.sent[i].status]

\* the <state> elements and the <link> elements of an app description
StatesIn(body) == { body[i][2] : i \in { j \in 1..Len(body) : body[j][1] = "state" } }
LinksIn(body) == { body[i] : i \in { j \in 1..Len(body) : body[j][1] = "link" } }

\* the state rule, written out: the explicit state, else "running" with a
\* non-empty pid, else "stopped"
ExpectedState(info) ==
    IF "state" \in DOMAIN info THEN info.state
    ELSE IF "pid" \in DOMAIN info /\ info.pid # "" THEN "running"
    ELSE "stopped"

\* C4: GET /apps/{name} sends one response; it is 404 exactly when the provider
\* does not know the app, and otherwise a 200 app description whose state
\* follows the state rule of what the provider reports.
C4_GetStatusAndState ==
    last.op = "GET" =>
        /\ Len(last.sent) = 1
        /\ (last.sent[1].status = 404) <=> (last.req.appName \notin DOMAIN apps)
        /\ last.req.appName \in DOMAIN apps =>
              /\ last.sent[1].status = 200
              /\ StatesIn(last.sent[1].body) = {ExpectedState(apps[last.req.appName])}

\* a GET of an app with a pid whose explicit state is "starting"
C4_Witness ==
    /\ last.op = "GET"
    /\ last.req.appName = "X"
    /\ "pid" \in DOMAIN apps["X"] /\ apps["X"].pid = "42"
    /\ "state" \in DOMAIN apps["X"] /\ apps["X"].state = "starting"
    /\ StatesIn(last.sent[1].body) = {"starting"}

\* C5: a POST /apps/{name} to a known app whose body is longer than the
\* effective maximum is answered 413 and calls no hook, whatever its content
\* type (the length taken in characters, as the code counts it).
C5_OversizePostRejected ==
    (last.op = "POST" /\ last.req.appName \in DOMAIN apps
        /\ last.req.body.chars > maxContentLength) =>
            /\ Statuses(last) = <<413>>
            /\ last.called = <<>>

\* C6: DELETE /apps/{name}/{pid}: 404 for an unknown app; 405 and no stop hook
\* when allowStop is not set, whatever the pid; 400 when the pid is empty;
\* else the stop hook is called and its callback sends 200 for stopped = true
\* and 400 for stopped = false.
C6_DeleteStatuses ==
    /\ last.op = "DELETE" =>
          IF last.req.appName \notin DOMAIN apps
          THEN Statuses(last) = <<404>> /\ last.called = <<>>
          ELSE IF ~("allowStop" \in DOMAIN apps[last.req.appName]
                        /\ apps[last.req.appName].allowStop)
          THEN Statuses(last) = <<405>> /\ last.called = <<>>
          ELSE IF last.req.pid = ""
          THEN Statuses(last) = <<400>> /\ last.called = <<>>
          ELSE /\ Statuses(last) = <<>>
               /\ last.called = <<[hook |-> "stopApp", appName |-> last.req.appName,
                                   pid |-> last.req.pid]>>
    /\ last.op = "stopCallback" =>
          Statuses(last) = <<IF last.result.stopped THEN 200 ELSE 400>>

\* a DELETE with the pid of the running instance, refused for want of allowStop
C6_Witness ==
    /\ last.op = "DELETE"
    /\ last.req.appName = "X" /\ last.req.pid = "42"
    /\ "pid" \in DOMAIN apps["X"] /\ apps["X"].pid = "42"
    /\ "allowStop" \notin DOMAIN apps["X"]
    /\ Statuses(last) = <<405>>

\* C7: the POST handler keeps the state inferred from the app info it read
\* before calling the launch hook, and a launch that completes without error
\* is answered 201 exactly when that state is "stopped", else 200, whatever
\* the app's state is by then.
C7_LaunchStatusFromPreLaunchState ==
    /\ (last.op = "POST" /\ last.called # <<>>) =>
          last.closure.state = ExpectedState(apps[last.req.appName])
    /\ (last.op = "launchCallback" /\ ~last.result.err) =>
          Statuses(last) = <<IF last.closure.state = "stopped" THEN 201 ELSE 200>>

\* a launch answered 201 although the app has a pid when the hook completes
C7_Witness ==
    /\ last.op = "launchCallback" /\ ~last.result.err
    /\ last.closure.state = "stopped"
    /\ Statuses(last) = <<201>>
    /\ ExpectedState(apps["X"]) = "running"

\* C8: every handler either sends exactly one status or has called a hook whose
\* callback is outstanding, and every callback sends exactly one status.
C8_EveryRequestAnswered ==
    /\ last.op \in {"GET", "POST", "POST dial_data", "DELETE"} =>
          \/ Len(last.sent) = 1 /\ last.called = <<>>
          \/ Len(last.sent) = 0 /\ Len(last.called) = 1
    /\ last.op \in {"launchCallback", "stopCallback"} => Len(last.sent) = 1

\* the last n fragments of a string
EndOf(str, n) == SubSeq(str, Len(str) - n + 1, Len(str))

\* C9: in the sequence GET, POST, GET on app X: with app info that has no state
\* and no pid the GET sends 200 with state "stopped" and no link; the POST
\* whose hook returns pid "42" sends 201 with a LOCATION ending in /apps/X/42;
\* the GET with the provider reporting pid "42" sends 200 with state "running"
\* and the link rel="run" href="42".  Every app description has a run link
\* exactly when the provider reports a non-empty pid.
C9_GetPostGetScenario ==
    /\ (scen = 1 /\ last.op = "GET") =>
          /\ Statuses(last) = <<200>>
          /\ StatesIn(last.sent[1].body) = {"stopped"}
          /\ LinksIn(last.sent[1].body) = {}
    /\ (scen = 2 /\ last.op = "launchCallback") =>
          /\ Statuses(last) = <<201>>
          /\ Len(last.sent[1].location) >= 4
          /\ EndOf(last.sent[1].location, 4) = <<"/apps/", "X", "/", "42">>
    /\ (scen = 3 /\ last.op = "GET") =>
          /\ Statuses(last) = <<200>>
          /\ StatesIn(last.sent[1].body) = {"running"}
          /\ LinksIn(last.sent[1].body) = {<<"link", "run", "42">>}
    /\ (last.op = "GET" /\ last.req.appName \in DOMAIN apps) =>
          LET info == apps[last.req.appName]
          IN  IF "pid" \in DOMAIN info /\ info.pid # ""
              THEN LinksIn(last.sent[1].body) = {<<"link", "run", info.pid>>}
              ELSE LinksIn(last.sent[1].body) = {}

\* the third request of the sequence has been answered
C9_Witness ==
    /\ scen = 3
    /\ last.op = "GET"
    /\ LinksIn(last.sent[1].body) = {<<"link", "run", "42">>}

\* C10: the "ready" handler sends exactly one alive per service type, with NT
\* the type, USN uuid:<id>::<type> and the device-description location, and
\* emits "ready" after the five; "ready" is emitted by that handler only.
C10_ReadySendsFiveAlivesThenEmits ==
    /\ sOp = "ready" =>
          /\ Len(sOut) = 6
          /\ \A st \in FiveTypes :
                /\ Cardinality(OfKindAndType(sOut, "alive", st)) = 1
                /\ \A i \in OfKindAndType(sOut, "alive", st) :
                      /\ sOut[i].headers.USN = <<"uuid:", "abc", "::">> \o st
                      /\ sOut[i].headers.LOCATION = DeviceDescLocation
          /\ \A i \in OfKind(sOut, "emit:ready") : \A j \in OfKind(sOut, "alive") : j < i
          /\ Cardinality(OfKind(sOut, "emit:ready")) = 1
    /\ OfKind(sOut, "emit:ready") # {} => sOp = "ready"

\* a "ready" batch of a Server whose extra headers name NT and LOCATION too
C10_Witness ==
    /\ sOp = "ready"
    /\ "NT" \in DOMAIN extraHeaders
    /\ Cardinality(OfKind(sOut, "alive")) = 5
    /\ sOut[6].kind = "emit:ready"

\* C11: a "search" event sends a reply exactly when the requested ST is one of
\* the five service types; then it sends one reply and nothing else, to the
\* address of the request, with ST the requested type and USN
\* uuid:<id>::<requested type>; no search sends an alive or a byebye, calls
\* close() or touches the countdowns of stop().
C11_SearchRepliesOnceToRequester ==
    [][\A headers \in SearchHeaders, address \in Addresses :
          (sOp' = "search" /\ PeerSearch(headers, address)) =>
              /\ sOut' # <<>> <=> ("ST" \in DOMAIN headers /\ headers.ST \in FiveTypes)
              /\ sOut' # <<>> =>
                    /\ Len(sOut') = 1
                    /\ sOut'[1].kind = "reply"
                    /\ sOut'[1].address = address
                    /\ sOut'[1].headers.ST = headers.ST
                    /\ sOut'[1].headers.USN = <<"uuid:", "abc", "::">> \o headers.ST
                    /\ sOut'[1].headers.LOCATION = DeviceDescLocation
              /\ OfKind(sOut', "alive") = {} /\ OfKind(sOut', "byebye") = {}
              /\ OfKind(sOut', "close") = {}
              /\ stopCalls' = stopCalls /\ sPeer' = sPeer]_vars

\* a search for the uuid type is answered, by a Server whose extra headers
\* name ST and USN too
C11_Witness ==
    /\ sOp = "search"
    /\ "ST" \in DOMAIN extraHeaders
    /\ Len(sOut) = 1
    /\ sOut[1].kind = "reply"
    /\ sOut[1].headers.ST = <<"uuid:", "abc">>
    /\ sOut[1].address.address = <<"10.0.0.6">>

\* the two tracked service types, written out
TrackedTypes ==
    { <<"urn:dial-multiscreen-org:service:dial:1">>,
      <<"urn:dial-multiscreen-org:device:dial:1">> }

\* the service type a message announces: ST of a search reply, NT of a notify
AnnouncedType(headers) ==
    IF "ST" \in DOMAIN headers THEN headers.ST
    ELSE IF "NT" \in DOMAIN headers THEN headers.NT ELSE <<>>

\* C12: a "found" is emitted, and a location recorded, only by the "found"
\* handler and by the notify handler for NTS=ssdp:alive, only for a message
\* whose announced type is one of the two tracked types and whose location was
\* not recorded; the emitted location is then recorded with the message's
\* headers; a "found" event or alive notify that emits nothing changes nothing.
C12_FoundOnlyForTrackedNew ==
    [][/\ \A i \in OfKind(cOut', "found") :
            /\ cOp' \in {"found", "notify"}
            /\ cOp' = "notify" => Header(cOut'[i].headers, "NTS") = <<"ssdp:alive">>
            /\ AnnouncedType(cOut'[i].headers) \in TrackedTypes
            /\ cOut'[i].location \notin DOMAIN services
            /\ cOut'[i].location \in DOMAIN services'
            /\ services'[cOut'[i].location] = cOut'[i].headers
       /\ \A l \in (DOMAIN services') \ (DOMAIN services) : l \in Emitted(cOut', "found")
       /\ (cOp' = "found" /\ cOut' = <<>>) => services' = services]_vars

\* C13: after refresh() no location is recorded, and refresh() has issued
\* exactly two searches, one for each of the two tracked types, and emitted no
\* "found" and no "disappear".
C13_RefreshClearsAndSearches ==
    cOp = "refresh" =>
        /\ DOMAIN services = {}
        /\ Len(cOut) = 2
        /\ \A st \in TrackedTypes :
              Cardinality({ i \in OfKind(cOut, "search") : cOut[i].headers = [ST |-> st] }) = 1
        /\ OfKind(cOut, "found") = {}
        /\ OfKind(cOut, "disappear") = {}

\* a refresh() of a Client that had found two locations and lost neither
C13_Witness ==
    /\ cOp = "refresh"
    /\ {LOC1, LOC2} \subseteq foundOpen
    /\ disappeared = {}
    /\ DOMAIN services = {}

CompletesGetAppInfo(ran) ==
    \/ ran.op = "app info response"
    \/ ran.op = "request error" /\ ran.input.op = "getAppInfo"
    \/ ran.op = "getAppInfo" /\ ran.requests = <<>>

\* C15: every completion of getAppInfo calls back once, with either a result or
\* an error and never with neither: a response other than 200 gives an error
\* with the status, a failed request gives the transport's error, a 200
\* response gives the parsed description (or the parser's error).
C15_GetAppInfoResultXorError ==
    CompletesGetAppInfo(dLast) =>
        /\ Len(dLast.callbacks) = 1
        /\ dLast.callbacks[1].hasResult # dLast.callbacks[1].hasErr
        /\ dLast.op = "request error" => dLast.callbacks[1].err.kind = "transport"
        /\ (dLast.op = "app info response" /\ dLast.input.status # 200) =>
              /\ dLast.callbacks[1].err.kind = "status"
              /\ dLast.callbacks[1].err.code = ToString(dLast.input.status)
        /\ (dLast.op = "app info response" /\ dLast.input.status = 200) =>
              \/ dLast.callbacks[1].err.kind = "parse"
              \/ /\ dLast.callbacks[1].hasResult
                 /\ dLast.callbacks[1].result.name = "X"
                 /\ StatesIn(dLast.input.body) = {dLast.callbacks[1].result.state}

\* the UTF-8 encodings of the payloads, counted by hand: "abc" is 3 bytes,
\* U+00E9 is C3 A9, U+20AC "a" is E2 82 AC 61, U+1F600 is F0 9F 98 80
Utf8Bytes(launchData) ==
    IF launchData.null THEN 0
    ELSE CASE launchData.str = <<>> -> 0
           [] launchData.str = <<97, 98, 99>> -> 3
           [] launchData.str = <<233>> -> 2
           [] launchData.str = <<8364, 97>> -> 4
           [] launchData.str = <<128512>> -> 4

\* the length of the payloads in UTF-16 units, counted by hand
Utf16Units(launchData) ==
    IF launchData.null THEN 0
    ELSE CASE launchData.str = <<>> -> 0
           [] launchData.str = <<97, 98, 99>> -> 3
           [] launchData.str = <<233>> -> 1
           [] launchData.str = <<8364, 97>> -> 2
           [] launchData.str = <<128512>> -> 2

\* C16: the request of launchApp has the content type text/plain;
\* charset="utf-8" when the caller gave none (null or ""), else the caller's;
\* its CONTENT-LENGTH is the payload's length in UTF-8 bytes, 0 for an empty or
\* absent payload, and so differs from the character count for the payloads
\* with multi-byte characters; the payload is what is written.
C16_LaunchContentTypeAndLength ==
    (dLast.op = "launchApp" /\ dLast.requests # <<>>) =>
        LET request == dLast.requests[1]
            launchData == dLast.input.launchData
        IN  /\ Len(dLast.requests) = 1
            /\ request.method = "POST"
            /\ request.headers["CONTENT-TYPE"] =
                  IF dLast.input.contentType \in {Null, ""}
                  THEN "text/plain; charset=\"utf-8\"" ELSE dLast.input.contentType
            /\ request.headers["CONTENT-LENGTH"] = Utf8Bytes(launchData)
            /\ Utf8Bytes(launchData) # Utf16Units(launchData) =>
                  request.headers["CONTENT-LENGTH"] # Utf16Units(launchData)
            /\ Utf8Bytes(launchData) > 0 => (request.written /\ request.body = launchData.str)
            /\ Utf8Bytes(launchData) = 0 => ~request.written

\* a launch with the payload U+20AC "a" (2 characters, 4 bytes) and no content type
C16_Witness ==
    /\ dLast.op = "launchApp"
    /\ dLast.requests # <<>>
    /\ dLast.input.launchData = LaunchString(<<8364, 97>>)
    /\ dLast.input.contentType = Null
    /\ dLast.requests[1].headers["CONTENT-LENGTH"] = 4
    /\ dLast.requests[1].headers["CONTENT-TYPE"] = "text/plain; charset=\"utf-8\""

\* C17: a description rendered from Device data and fetched with status 200 and
\* an Application-URL header is parsed back into a DialDevice whose
\* friendlyName, manufacturer and modelName are those of the data and whose UDN
\* is uuid:<uuid of the data>.
C17_DescriptionRoundTrip ==
    (/\ dLast.op = "description response"
     /\ dLast.input.status = 200
     /\ dLast.input.header # Undefined
     /\ dLast.input.doc.kind = "rendered") =>
        /\ Len(dLast.callbacks) = 1
        /\ dLast.callbacks[1].hasResult
        /\ dLast.callbacks[1].result.friendlyName = dLast.input.doc.data.friendlyName
        /\ dLast.callbacks[1].result.manufacturer = dLast.input.doc.data.manufacturer
        /\ dLast.callbacks[1].result.modelName = dLast.input.doc.data.modelName
        /\ dLast.callbacks[1].result.UDN = <<"uuid:">> \o dLast.input.doc.data.uuid

\* C18: a POST /apps/{name} to an app the provider does not know is answered
\* 404, also when its body is longer than the maximum; a POST answered 404 or
\* 413 calls no hook; the launch hook is called only for a known app and a
\* body that passed the length test, and then nothing is sent before the
\* hook's callback.
C18_PostChecksInOrder ==
    last.op = "POST" =>
        /\ last.req.appName \notin DOMAIN apps => Statuses(last) = <<404>>
        /\ Statuses(last) \in {<<404>>, <<413>>} => last.called = <<>>
        /\ last.called # <<>> =>
              /\ last.req.appName \in DOMAIN apps
              /\ Statuses(last) = <<>>
              /\ last.req.ctype = "text/plain" => last.req.body.chars <= maxContentLength
        /\ (last.req.appName \in DOMAIN apps /\ last.req.ctype = "text/plain"
                /\ last.req.body.chars > maxContentLength) => Statuses(last) = <<413>>

\* a POST to the unknown app with a body of 5001 characters, answered 404
C18_Witness ==
    /\ last.op = "POST"
    /\ last.req.appName = "Y"
    /\ last.req.body.chars > maxContentLength
    /\ Statuses(last) = <<404>>
    /\ last.called = <<>>

\* C19: the launch callback sends one status: 503 without a LOCATION header
\* when the hook signals an error, whatever pid it passes; else 200 or 201,
\* with LOCATION {baseURL}/apps/{name}/{pid} when the pid is non-empty and
\* without a LOCATION header when the pid is null or empty.
C19_LaunchCallbackLocation ==
    last.op = "launchCallback" =>
        /\ Len(last.sent) = 1
        /\ last.result.err =>
              /\ last.sent[1].status = 503
              /\ last.sent[1].location = <<>>
        /\ (~last.result.err /\ last.result.pid \notin {Null, ""}) =>
              /\ last.sent[1].status \in {200, 201}
              /\ last.sent[1].location =
                    <<"http", "://", "10.0.0.9", ":", "3000", "/dial", "/apps/",
                      last.closure.appName, "/", last.result.pid>>
        /\ (~last.result.err /\ last.result.pid \in {Null, ""}) =>
              /\ last.sent[1].status \in {200, 201}
              /\ last.sent[1].location = <<>>

\* the launch hook signals an error and passes a pid too
C19_Witness ==
    /\ last.op = "launchCallback"
    /\ last.result.err
    /\ last.result.pid = "42"
    /\ Statuses(last) = <<503>>
    /\ last.sent[1].location = <<>>

\* C20 as stated: when a handler got an advertisement of a tracked type for a
\* location already recorded, the record of the location holds the headers of
\* that advertisement afterwards.
C20_RecordIsLastSeen ==
    readvertised.location # Undefined =>
        services[readvertised.location] = readvertised.headers

\* C20, amended: a record is never overwritten: while a location stays recorded
\* its headers stay those it was recorded with, an advertisement for a
\* recorded location changes nothing and emits nothing, and the "disappear" of
\* a recorded location carries the headers it was recorded with.
C20_RecordIsFirstSeen ==
    [][/\ \A l \in (DOMAIN services) \cap (DOMAIN services') : services'[l] = services[l]
       /\ readvertised'.location # Undefined => (services' = services /\ cOut' = <<>>)
       /\ \A i \in OfKind(cOut', "found") : services'[cOut'[i].location] = cOut'[i].headers
       /\ \A i \in OfKind(cOut', "disappear") :
             cOut'[i].location \in DOMAIN services =>
                 cOut'[i].headers = services[cOut'[i].location]]_vars

\* a location recorded from a search reply with one USN has been advertised
\* again with another USN, and the record still holds the first
C20_Witness ==
    /\ readvertised.location = LOC1
    /\ readvertised.headers.USN = <<"usn-2">>
    /\ services[LOC1].USN = <<"usn-1">>

\* the service types (NT) of the messages of a kind in an output
TypesOf(out, kind) == { out[i].headers.NT : i \in OfKind(out, kind) }

\* C21: every operation announces either none or all five service types, and
\* withdraws either none or all five; stop() withdraws the set the "ready"
\* handler announces (a stop() that follows the announcement withdraws what it
\* announced); every alive and every byebye has the USN uuid:<id>::<its type>
\* with the one uuid of the Server, and the one device-description location.
C21_FixedBatchSameUuidAndLocation ==
    [][/\ TypesOf(sOut', "alive") \in {{}, FiveTypes}
       /\ TypesOf(sOut', "byebye") \in {{}, FiveTypes}
       /\ sOp' = "ready" => TypesOf(sOut', "alive") = FiveTypes
       /\ sOp' = "stop" => TypesOf(sOut', "byebye") = FiveTypes
       /\ (sOp = "ready" /\ sOp' = "stop") => TypesOf(sOut', "byebye") = TypesOf(sOut, "alive")
       /\ \A i \in OfKind(sOut', "alive") \cup OfKind(sOut', "byebye") :
             /\ sOut'[i].headers.USN = <<"uuid:", "abc", "::">> \o sOut'[i].headers.NT
             /\ sOut'[i].headers.LOCATION = DeviceDescLocation]_vars

\* the second stop() of a Server whose extra headers name USN and LOCATION too
\* withdraws the five types
C21_Witness ==
    /\ sOp = "stop"
    /\ Len(stopCalls) = 2
    /\ "USN" \in DOMAIN extraHeaders
    /\ TypesOf(sOut, "byebye") = FiveTypes

\* C25: when a POST /apps/{name} reads a stopped app while the launch hook of
\* an earlier POST to the app has not called back, both launches (completing
\* without error) are answered 201, whatever the provider reports by then; the
\* state a POST keeps for its answer is the one of the app info its own call
\* of the get hook returned.
C25_OverlappingPostsBothCreated ==
    /\ (last.op = "launchCallback" /\ hist.pair \in {2, 3}) =>
          /\ last.closure.state = "stopped"
          /\ Statuses(last) = <<201>>
    /\ (last.op = "POST" /\ last.called # <<>>) =>
          last.closure.state = ExpectedState(last.appInfo)

\* the second of two overlapping launches is answered 201 while the provider
\* reports the app as running
C25_Witness ==
    /\ hist.pair = 3
    /\ last.op = "launchCallback"
    /\ Statuses(last) = <<201>>
    /\ inflight = EmptyBag
    /\ ExpectedState(apps["X"]) = "running"

\* the pid of an app info, null when it has none
PidOf(info) == IF "pid" \in DOMAIN info THEN info.pid ELSE "<null>"

\* C22: on the demo server, a DELETE /apps/YouTube/{pid} whose pid is not the
\* pid of the running instance (another pid, no pid, or no instance running)
\* is answered 400 and leaves the app as the handler found it; a DELETE with
\* the pid of the running instance is answered 200 and leaves the app with
\* state "stopped" and pid null.
C22_DemoDeleteByPid ==
    (last.op = "DELETE" /\ last.req.appName = "YouTube") =>
        IF PidOf(last.appInfo) # "<null>" /\ last.req.pid = PidOf(last.appInfo)
        THEN /\ Statuses(last) = <<200>>
             /\ apps["YouTube"].state = "stopped"
             /\ PidOf(apps["YouTube"]) = "<null>"
        ELSE /\ Statuses(last) = <<400>>
             /\ apps["YouTube"] = last.appInfo

\* a DELETE with pid "42" while the instance with pid "run" is running
C22_Witness ==
    /\ last.op = "DELETE"
    /\ last.req.pid = "42"
    /\ PidOf(last.appInfo) = "run"
    /\ Statuses(last) = <<400>>
    /\ apps["YouTube"].state = "running"
    /\ PidOf(apps["YouTube"]) = "run"

\* C23: on the demo server, in every state between requests every app of the
\* table has a pid exactly when its state is not "stopped", and every app
\* description served has a run link exactly when its state is not "stopped".
C23_DemoPidIffNotStopped ==
    /\ \A n \in DOMAIN apps : (PidOf(apps[n]) # "<null>") <=> (apps[n].state # "stopped")
    /\ (last.op = "GET" /\ Statuses(last) = <<200>>) =>
          (LinksIn(last.sent[1].body) # {}) <=> (StatesIn(last.sent[1].body) # {"stopped"})

\* a description served after a launch, a stop and a second launch: it has the
\* run link and the state "running"
C23_Witness ==
    /\ last.op = "GET"
    /\ hist.stopped
    /\ hist.accepted = 1
    /\ LinksIn(last.sent[1].body) = {<<"link", "run", "run">>}
    /\ StatesIn(last.sent[1].body) = {"running"}

\* C24 as stated: on the demo server, a POST /apps/YouTube is answered 201
\* when it is the first POST since the latest DELETE answered 200 (or the
\* first POST at all), and 200 otherwise.
C24_DemoFirstPostCreated ==
    (last.op = "POST" /\ last.req.appName = "YouTube") =>
        Statuses(last) = <<IF hist.posts = 1 THEN 201 ELSE 200>>

\* C24, amended: a POST /apps/YouTube that is not refused with 413 is answered
\* 201 when it is the first such POST since the latest DELETE answered 200 (or
\* the first at all), and 200 otherwise; a refused POST leaves the app as it is.
C24_DemoFirstAcceptedPostCreated ==
    (last.op = "POST" /\ last.req.appName = "YouTube") =>
        IF Statuses(last) = <<413>>
        THEN apps["YouTube"] = last.appInfo
        ELSE Statuses(last) = <<IF hist.accepted = 1 THEN 201 ELSE 200>>

\* the first POST after a DELETE answered 200 is answered 201, an oversized
\* POST having been refused in between
C24_Witness ==
    /\ last.op = "POST"
    /\ hist.stopped
    /\ hist.posts = 2
    /\ hist.accepted = 1
    /\ Statuses(last) = <<201>>

\* C26: in every state of the Client the recorded locations are exactly the
\* locations for which "found" was emitted since the latest refresh() and no
\* "disappear" was emitted since that "found".
C26_RecordedIsFoundNotDisappeared ==
    DOMAIN services = tracked

\* after a refresh() one of the two locations found before it is found again,
\* and a location found after it has disappeared
C26_Witness ==
    /\ DOMAIN services = {LOC2}
    /\ foundOpen = {LOC1, LOC2}
    /\ tracked = {LOC2}
    /\ LOC_INHERITED \in disappeared

\* C27: a call of stop() has invoked the transport's close() once when its five
\* acknowledgments are delivered and not at all before; close() is invoked by
\* the step that delivers the fifth; "stop" is emitted by the "close" handler
\* only, and so only after some call of stop() has all its five
\* acknowledgments.
C27_CloseOnceAtFifthAckThenStop ==
    /\ \A c \in DOMAIN stopCalls :
          stopCalls[c].closes = IF stopCalls[c].pending = {} THEN 1 ELSE 0
    /\ OfKind(sOut, "close") # {} =>
          /\ sOp = "ack"
          /\ Len(sOut) = 1
          /\ \E c \in DOMAIN stopCalls : stopCalls[c].pending = {} /\ stopCalls[c].remaining = 0
    /\ OfKind(sOut, "emit:stop") # {} =>
          /\ sOp = "close"
          /\ \E c \in DOMAIN stopCalls : stopCalls[c].pending = {}
    /\ closeEvents > 0 => \E c \in DOMAIN stopCalls : stopCalls[c].pending = {}

\* the "close" handler has emitted "stop" after the one call of stop() got its
\* five acknowledgments
C27_Witness ==
    /\ sOp = "close"
    /\ Len(stopCalls) = 1
    /\ stopCalls[1].pending = {}
    /\ stopCalls[1].closes = 1
    /\ OfKind(sOut, "emit:stop") = {1}
    /\ closeEvents = 0

====
